---- MODULE Spec2Model ----
(***************************************************************************)
(* A model of PrMers' work-queue reader, io::WorktodoParser.               *)
(*                                                                         *)
(* Text is modelled character by character: a string is a sequence of      *)
(* one-character strings, a line is a string without its terminating       *)
(* newline, and a file is the sequence of lines std::getline reads from    *)
(* it.  The decoder (the body of the loop of WorktodoParser::parse) is a   *)
(* set of operators over such strings; parse() and removeFirstProcessed()  *)
(* are processes that advance one line, or one file-system call, per step. *)
(*                                                                         *)
(* What is written to std::cout is not modelled (the "Loaded ..." line,    *)
(* WorktodoEntry::toString, the residue-type warning); what is written to  *)
(* std::cerr is, as the sequence of reasons a line is skipped with (the    *)
(* keyword appended to "Skip unsupported test type: " left out).           *)
(***************************************************************************)
EXTENDS Integers, Sequences, FiniteSets, TLC

VARIABLES
    queue,        \* the file filename_            [exists, lines]
    temp,         \* the file filename_ + ".tmp"   [exists, lines]
    archive,      \* the file worktodo_save.txt    [exists, lines]
    pc,           \* where the calling process is
    calls,        \* how many calls of the parser's methods were started
    scan,         \* parse(): index of the next line std::getline returns
    skipLog,      \* parse(): per line scanned, the reasons written to std::cerr
    parseResult,  \* parse(): what the last finished call returned
    rm            \* removeFirstProcessed(): the locals of the running call

vars == <<queue, temp, archive, pc, calls, scan, skipLog, parseResult, rm>>

----------------------------------------------------------------------------
(* Bounds of the model. *)

\* the longest queue file parse() is run on, in lines
MaxLines == 2
\* the longest queue file of the specification of removeFirstProcessed alone
MaxQueueLines == 3
\* the number of calls of parse() / removeFirstProcessed() in one run
MaxCalls == 2

----------------------------------------------------------------------------
(* The lines a queue file is made of. *)

\* (the empty line)
LineEmpty ==
    <<>>
\* # q
LineComment ==
    <<"#"," ","q">>
\* Test
LineNoEquals ==
    <<"T","e","s","t">>
\* Foo=1,2
LineUnsupported ==
    <<"F","o","o","=","1",",","2">>
\* Test=127,0,0
LineTest ==
    <<"T","e","s","t","=","1","2","7",",","0",",","0">>
\* DoubleCheck=N/A,127,0,0
LineTestAid ==
    <<"D","o","u","b","l","e","C","h","e","c","k","=","N","/","A",",","1","2","7",",","0",",","0">>
\* Test=0,0,0
LineTestZero ==
    <<"T","e","s","t","=","0",",","0",",","0">>
\* Test=127,0
LineTestShort ==
    <<"T","e","s","t","=","1","2","7",",","0">>
\* PRP=1,2,11,-1
LinePrp ==
    <<"P","R","P","=","1",",","2",",","1","1",",","-","1">>
\* PRPDC=0123456789abcdefABCDEF0123456789,1,2,11,-1
LinePrpHexAid ==
    <<"P","R","P","D","C","=","0","1","2","3","4","5","6","7","8","9","a","b","c","d","e","f","A","B","C","D","E","F","0","1","2","3","4","5","6","7","8","9",",","1",",","2",",","1","1",",","-","1">>
\* PRP=1,2,11,-1,"23,89"
LinePrpFactors ==
    <<"P","R","P","=","1",",","2",",","1","1",",","-","1",",","\"","2","3",",","8","9","\"">>
\* PRP=1,2,11,-1,"7"
LinePrpBadFactors ==
    <<"P","R","P","=","1",",","2",",","1","1",",","-","1",",","\"","7","\"">>
\* PRP=1,2,11,1,"3"
LinePrpWagstaff ==
    <<"P","R","P","=","1",",","2",",","1","1",",","1",",","\"","3","\"">>
\* PRP=1,2,11,-1,75
LinePrpUnquoted ==
    <<"P","R","P","=","1",",","2",",","1","1",",","-","1",",","7","5">>
\* PRP=1,2,11,1,75,0,23
LinePrpUnquoted3 ==
    <<"P","R","P","=","1",",","2",",","1","1",",","1",",","7","5",",","0",",","2","3">>
\* PRP=1,2,11,-1,75,0,3,1
LinePrpBase ==
    <<"P","R","P","=","1",",","2",",","1","1",",","-","1",",","7","5",",","0",",","3",",","1">>
\* PRP=1,2,11,-1,75,0,2,1
LinePrpBase2 ==
    <<"P","R","P","=","1",",","2",",","1","1",",","-","1",",","7","5",",","0",",","2",",","1">>
\* PRP=3,2,11,-1
LinePrpOther ==
    <<"P","R","P","=","3",",","2",",","1","1",",","-","1">>
\* PRP=0,2,11,-1
LinePrpZeroK ==
    <<"P","R","P","=","0",",","2",",","1","1",",","-","1">>
\* PFactor=1277,70,5
LinePFactorShort ==
    <<"P","F","a","c","t","o","r","=","1","2","7","7",",","7","0",",","5">>
\* PFactor=1277,70,5,1000,50000
LinePFactorShortB ==
    <<"P","F","a","c","t","o","r","=","1","2","7","7",",","7","0",",","5",",","1","0","0","0",",","5","0","0","0","0">>
\* PFactor=AID,1,2,1277,-1,70,5,1000,50000
LinePFactor ==
    <<"P","F","a","c","t","o","r","=","A","I","D",",","1",",","2",",","1","2","7","7",",","-","1",",","7","0",",","5",",","1","0","0","0",",","5","0","0","0","0">>
\* PFactor=N/A
LinePFactorNoParts ==
    <<"P","F","a","c","t","o","r","=","N","/","A">>
\* PFactor=1,2,0,-1,70,5,1000,1.5
LinePFactorStale ==
    <<"P","F","a","c","t","o","r","=","1",",","2",",","0",",","-","1",",","7","0",",","5",",","1","0","0","0",",","1",".","5">>
\* Pminus1=1,2,1277,-1,1000,50000,70
LinePminus1 ==
    <<"P","m","i","n","u","s","1","=","1",",","2",",","1","2","7","7",",","-","1",",","1","0","0","0",",","5","0","0","0","0",",","7","0">>
\* Pminus1=1,2,1277,-1,1000,50000,70,"3,5"
LinePminus1Factors ==
    <<"P","m","i","n","u","s","1","=","1",",","2",",","1","2","7","7",",","-","1",",","1","0","0","0",",","5","0","0","0","0",",","7","0",",","\"","3",",","5","\"">>
\* Pminus1=1,2,1277,-1,1000,50000,70,80
LinePminus1Tail ==
    <<"P","m","i","n","u","s","1","=","1",",","2",",","1","2","7","7",",","-","1",",","1","0","0","0",",","5","0","0","0","0",",","7","0",",","8","0">>
\* Pminus1=1,2,1277,-1,1000,1.5,70,80
LinePminus1BadB ==
    <<"P","m","i","n","u","s","1","=","1",",","2",",","1","2","7","7",",","-","1",",","1","0","0","0",",","1",".","5",",","7","0",",","8","0">>
\* Pminus1=1,2,1277,-1,1000
LinePminus1NoB ==
    <<"P","m","i","n","u","s","1","=","1",",","2",",","1","2","7","7",",","-","1",",","1","0","0","0">>
Lines ==
    {LineEmpty,
     LineComment,
     LineNoEquals,
     LineUnsupported,
     LineTest,
     LineTestAid,
     LineTestZero,
     LineTestShort,
     LinePrp,
     LinePrpHexAid,
     LinePrpFactors,
     LinePrpBadFactors,
     LinePrpWagstaff,
     LinePrpUnquoted,
     LinePrpUnquoted3,
     LinePrpBase,
     LinePrpBase2,
     LinePrpOther,
     LinePrpZeroK,
     LinePFactorShort,
     LinePFactorShortB,
     LinePFactor,
     LinePFactorNoParts,
     LinePFactorStale,
     LinePminus1,
     LinePminus1Factors,
     LinePminus1Tail,
     LinePminus1BadB,
     LinePminus1NoB}
----------------------------------------------------------------------------
(* Characters, and the conversions of the standard library.               *)
(*                                                                         *)
(* TLC's integers are 32 bits wide and signed.  An unsigned value is kept  *)
(* as the integer congruent to it in that range: the numerals of the lines *)
(* above have at most five digits, so a converted numeral is its own       *)
(* value, and a numeral with a minus sign, which strtoul negates modulo    *)
(* 2^64, is kept as the negative integer that stands for 2^w - v.  ULess   *)
(* compares two such values as the unsigned values they stand for.         *)

TESTTYPE_UNSUPPORTED == 0
TESTTYPE_PRP == 1
TESTTYPE_LL == 2
TESTTYPE_PM1 == 3

sPRP == <<"P","R","P">>
sPRPDC == <<"P","R","P","D","C">>
sTest == <<"T","e","s","t">>
sDoubleCheck == <<"D","o","u","b","l","e","C","h","e","c","k">>
sPFactor == <<"P","F","a","c","t","o","r">>
sPminus1 == <<"P","m","i","n","u","s","1">>
sNA == <<"N","/","A">>
sAID == <<"A","I","D">>
sOne == <<"1">>
sThree == <<"3">>

DecDigits == <<"0","1","2","3","4","5","6","7","8","9">>

isdigit(ch) == \E d \in 1..10 : DecDigits[d] = ch

DigitVal(ch) == (CHOOSE d \in 1..10 : DecDigits[d] = ch) - 1

isxdigit(ch) ==
    isdigit(ch) \/ ch \in {"a","b","c","d","e","f","A","B","C","D","E","F"}

isspace(ch) == ch \in {" ", "\t", "\n", "\r"}

ULess(x, y) == IF (x < 0) = (y < 0) THEN x < y ELSE y < 0

\* the first index at or after i that holds no white space
RECURSIVE skipSpace(_, _)
skipSpace(s, i) ==
    IF i <= Len(s) /\ isspace(s[i]) THEN skipSpace(s, i + 1) ELSE i

\* the first index at or after i that holds no decimal digit
RECURSIVE digitsEnd(_, _)
digitsEnd(s, i) ==
    IF i <= Len(s) /\ isdigit(s[i]) THEN digitsEnd(s, i + 1) ELSE i

\* the value of the decimal digits s[i] .. s[j-1]
RECURSIVE digitsValue(_, _, _)
digitsValue(s, i, j) ==
    IF j <= i THEN 0 ELSE digitsValue(s, i, j - 1) * 10 + DigitVal(s[j - 1])

\* the digits s[d] .. s[e-1] as a number, negated after a minus sign at s[d-1]
signedDigits(s, d, e) ==
    [ok |-> e > d,
     val |-> IF d > 1 /\ s[d - 1] = "-" THEN 0 - digitsValue(s, d, e)
             ELSE digitsValue(s, d, e)]

\* the conversion from index a on, where the white space ends
strtoIntAt(s, a) ==
    IF a <= Len(s) /\ s[a] \in {"+", "-"}
    THEN signedDigits(s, a + 1, digitsEnd(s, a + 1))
    ELSE [ok |-> digitsEnd(s, a) > a, val |-> digitsValue(s, a, digitsEnd(s, a))]

\* strtol / strtoul: white space, an optional sign, the longest run of digits;
\* no digit at all is std::invalid_argument (ok = FALSE).
strtoInt(s) == strtoIntAt(s, skipSpace(s, 1))

stoul(s) == strtoInt(s)

stoull(s) == strtoInt(s)

stoi(s) == strtoInt(s)

stodAt(s, a) ==
    [ok |-> digitsEnd(s, a) > a, val |-> digitsValue(s, a, digitsEnd(s, a))]

\* strtod cast to uint64_t: the digits before an optional fraction.  A numeral
\* with no digit before the point, a sign or an exponent part is in no line
\* of the model.
stod(s) == stodAt(s, skipSpace(s, 1))

\* util::split, a generic tokenizer on a delimiter (std::getline on a
\* stringstream: no token after a final delimiter).
RECURSIVE splitFrom(_, _, _, _, _)
splitFrom(s, delim, i, current, result) ==
    IF i > Len(s)
    THEN IF current # <<>> THEN Append(result, current) ELSE result
    ELSE IF s[i] = delim
         THEN splitFrom(s, delim, i + 1, <<>>, Append(result, current))
         ELSE splitFrom(s, delim, i + 1, Append(current, s[i]), result)

split(s, delim) == splitFrom(s, delim, 1, <<>>, <<>>)

RECURSIVE splitQuotedFrom(_, _, _, _, _, _)
splitQuotedFrom(s, delim, i, current, inQuotes, result) ==
    IF i > Len(s)
    THEN IF current # <<>> THEN Append(result, current) ELSE result
    ELSE IF s[i] = "\""
         THEN splitQuotedFrom(s, delim, i + 1, Append(current, s[i]),
                              ~inQuotes, result)
         ELSE IF s[i] = delim /\ ~inQuotes
              THEN splitQuotedFrom(s, delim, i + 1, <<>>, inQuotes,
                                   Append(result, current))
              ELSE splitQuotedFrom(s, delim, i + 1, Append(current, s[i]),
                                   inQuotes, result)

splitRespectingQuotes(s, delim) ==
    splitQuotedFrom(s, delim, 1, <<>>, FALSE, <<>>)

isHex(s) == Len(s) = 32 /\ \A i \in 1..Len(s) : isxdigit(s[i])

\* s without its trailing white space
RECURSIVE trimBack(_)
trimBack(s) ==
    IF s # <<>> /\ isspace(s[Len(s)]) THEN trimBack(SubSeq(s, 1, Len(s) - 1))
    ELSE s

\* lines 100-106: the elements of a list in double quotes, of anything else none
quotedList(trimmed) ==
    IF Len(trimmed) >= 2 /\ trimmed[1] = "\"" /\ trimmed[Len(trimmed)] = "\""
    THEN split(SubSeq(trimmed, 2, Len(trimmed) - 1), ",")
    ELSE <<>>

parseFactors(factorStr) == quotedList(trimBack(factorStr))

\* base^e modulo m
RECURSIVE PowMod(_, _, _)
PowMod(base, e, m) ==
    IF e = 0 THEN 1 % m ELSE (PowMod(base, e - 1, m) * base) % m

\* math::Cofactor::validateFactors: every known factor is a decimal numeral
\* greater than 1 that divides 2^exponent - 1.
isFactor(exponent, f) ==
    /\ f # <<>>
    /\ digitsEnd(f, 1) = Len(f) + 1
    /\ digitsValue(f, 1, Len(f) + 1) > 1
    /\ PowMod(2, exponent, digitsValue(f, 1, Len(f) + 1)) = 1

validateFactors(exponent, factors) ==
    \A i \in 1..Len(factors) : isFactor(exponent, factors[i])

----------------------------------------------------------------------------
(* The job descriptor.  The options are a union of the factoring bounds    *)
(* and the residue type in the header; the model keeps the three fields    *)
(* apart, each with the default its struct gives it.                       *)

DefaultEntry ==
    [testType |-> TESTTYPE_UNSUPPORTED,
     exponent |-> 0, k |-> 0, b |-> 0, c |-> 0,
     aid |-> <<>>, rawLine |-> <<>>, knownFactors |-> <<>>,
     B1 |-> 0, B2 |-> 0, residueType |-> 1]

isMersenne(entry) == entry.k = 1 /\ entry.b = 2 /\ entry.c = 0 - 1

\* the header writes knownfactors.length(): the size of knownFactors
isWagstaff(entry) ==
    /\ entry.k = 1 /\ entry.b = 2 /\ entry.c = 1
    /\ Len(entry.knownFactors) > 0
    /\ entry.knownFactors[1] = sThree

----------------------------------------------------------------------------
(* The field parsers.  Each takes the entry and the remaining tokens and   *)
(* gives what the C++ function leaves behind: its return value (ok), the   *)
(* entry and the tokens as it modified them, and what it wrote to cerr.    *)

Step(ok, entry, parts, reasons) ==
    [ok |-> ok, crash |-> FALSE, entry |-> entry, parts |-> parts,
     reasons |-> reasons]

eraseFront(parts, n) == SubSeq(parts, n + 1, Len(parts))

\* lines 112-116, kf being what parseFactors made of the last token
takeFactors(entry, parts, kf) ==
    IF kf # <<>>
    THEN Step(TRUE, [entry EXCEPT !.knownFactors = kf],
              SubSeq(parts, 1, Len(parts) - 1), <<>>)
    ELSE Step(TRUE, entry, parts, <<>>)

parsePartsFactors(entry, parts) ==
    IF parts = <<>> THEN Step(FALSE, entry, parts, <<>>)
    ELSE takeFactors(entry, parts, parseFactors(parts[Len(parts)]))

\* lines 122-125: the assignments made before the first conversion that
\* throws, k, b, n and c being the four conversions
assignKbnc(entry, k, b, n, c) ==
    [entry EXCEPT
        !.k = IF k.ok THEN k.val ELSE @,
        !.b = IF k.ok /\ b.ok THEN b.val ELSE @,
        !.exponent = IF k.ok /\ b.ok /\ n.ok THEN n.val ELSE @,
        !.c = IF k.ok /\ b.ok /\ n.ok /\ c.ok THEN c.val ELSE @]

\* lines 126-131, converted telling that no conversion threw
checkKbnc(entry, kbnc, converted) ==
    IF ~converted THEN Step(FALSE, entry, kbnc, <<>>)
    ELSE IF entry.k = 0 \/ ULess(entry.b, 2) \/ entry.exponent = 0
         THEN Step(FALSE, entry, kbnc, <<"Skip: invalid k,b,n,c values">>)
         ELSE Step(TRUE, entry, eraseFront(kbnc, 4), <<>>)

convertKbnc(entry, kbnc, k, b, n, c) ==
    checkKbnc(assignKbnc(entry, k, b, n, c), kbnc,
              k.ok /\ b.ok /\ n.ok /\ c.ok)

parseKbnc(entry, kbnc) ==
    IF Len(kbnc) < 4
    THEN Step(FALSE, entry, kbnc, <<"Skip: not enough parts for k,b,n,c">>)
    ELSE convertKbnc(entry, kbnc, stoul(kbnc[1]), stoul(kbnc[2]),
                     stoul(kbnc[3]), stoi(kbnc[4]))

\* lines 136-143, n being the conversion of parts[0]
convertExponent(entry, parts, n) ==
    IF ~n.ok THEN Step(FALSE, entry, parts, <<>>)
    ELSE IF n.val = 0
         THEN Step(FALSE, [entry EXCEPT !.exponent = n.val], parts,
                   <<"Skip: invalid exponent 0">>)
         ELSE Step(TRUE, [entry EXCEPT !.exponent = n.val],
                   eraseFront(parts, 1), <<>>)

parseExponent(entry, parts) ==
    IF parts = <<>> THEN Step(FALSE, entry, parts, <<>>)
    ELSE convertExponent(entry, parts, stoul(parts[1]))

\* the step r, its reasons written after the reasons before
after(before, r) == [r EXCEPT !.reasons = before \o @]

\* lines 148-149 when parts[0] is "1": parseKbnc ran and gave kbnc; if it
\* failed, parseExponent runs on the entry parseKbnc left behind
exponentUnlessKbnc(kbnc) ==
    IF kbnc.ok THEN kbnc
    ELSE after(kbnc.reasons, parseExponent(kbnc.entry, kbnc.parts))

\* parts[0] is read unchecked.  With no token left that read is undefined:
\* the process is stopped (a checked operator[], a null vector), or the read
\* yields whatever the storage holds, which is "1" or is not.
parseExponentOrKbnc(entry, parts) ==
    IF parts = <<>>
    THEN {[Step(FALSE, entry, parts, <<>>) EXCEPT !.crash = TRUE],
          parseExponent(entry, parts),
          exponentUnlessKbnc(parseKbnc(entry, parts))}
    ELSE IF parts[1] = sOne
         THEN {exponentUnlessKbnc(parseKbnc(entry, parts))}
         ELSE {parseExponent(entry, parts)}

parseMandatorySomething(parts) ==
    IF parts = <<>> THEN [ok |-> FALSE, parts |-> parts]
    ELSE [ok |-> TRUE, parts |-> eraseFront(parts, 1)]

\* lines 161-162: the assignments made before the first conversion that throws
assignBounds(entry, b1, b2) ==
    [entry EXCEPT
        !.B1 = IF b1.ok THEN b1.val ELSE @,
        !.B2 = IF b1.ok /\ b2.ok THEN b2.val ELSE @]

\* lines 163-169, converted telling that no conversion threw
checkBounds(entry, parts, converted) ==
    IF ~converted THEN Step(FALSE, entry, parts, <<>>)
    ELSE IF entry.B1 = 0 \/ ULess(entry.B2, entry.B1)
         THEN Step(FALSE, entry, parts, <<"Skip: invalid B1,B2 values">>)
         ELSE Step(TRUE, entry, eraseFront(parts, 2), <<>>)

convertBounds(entry, parts, b1, b2) ==
    checkBounds(assignBounds(entry, b1, b2), parts, b1.ok /\ b2.ok)

parseFactoringOpts(entry, parts) ==
    IF Len(parts) < 2
    THEN Step(FALSE, entry, parts, <<"Skip: not enough parts for B1,B2">>)
    ELSE convertBounds(entry, parts, stoull(parts[1]), stod(parts[2]))

----------------------------------------------------------------------------
(* The body of the loop of WorktodoParser::parse: what one line does.  An  *)
(* outcome is "accept" (return entry), "skip" (continue, with the reasons  *)
(* written to cerr, possibly none) or "crash" (the process is stopped).    *)

Skip(reasons) ==
    [kind |-> "skip", entry |-> DefaultEntry, reasons |-> reasons]

Accept(entry, reasons) ==
    [kind |-> "accept", entry |-> entry, reasons |-> reasons]

Crash ==
    [kind |-> "crash", entry |-> DefaultEntry, reasons |-> <<>>]

\* lines 218-225, after parseExponentOrKbnc returned r1.  The call of line 225
\* names parseMaybeFactors, which the file does not define: it is the
\* function of lines 109-117, whose result is not looked at here.
afterExponentOrKbnc(r1) ==
    LET m1 == parseMandatorySomething(r1.parts)
        m2 == parseMandatorySomething(m1.parts)
        r2 == parseFactoringOpts(r1.entry, m2.parts)
        r3 == parsePartsFactors(r2.entry, r2.parts)
    IN  IF r1.crash THEN Crash
        ELSE IF ~r1.ok THEN Skip(r1.reasons)
        ELSE IF ~isMersenne(r1.entry)
        THEN Skip(r1.reasons \o
                  <<"Skip unsupported PFactor line (only Mersenne supported)">>)
        ELSE IF ~m1.ok
        THEN Skip(r1.reasons \o
                  <<"Bad PFactor line (missing how_far_factored)">>)
        ELSE IF ~m2.ok
        THEN Skip(r1.reasons \o
                  <<"Bad PFactor line (missing ll_tests_saved_if_factor_found)">>)
        ELSE IF ~r2.ok THEN Skip(r1.reasons \o r2.reasons)
        ELSE Accept(r3.entry, r1.reasons)

decodePFactor(entry, parts) ==
    {afterExponentOrKbnc(r1) : r1 \in parseExponentOrKbnc(entry, parts)}

\* lines 228-233; parseMaybeFactors as above, its result looked at.
decodePminus1(entry, parts) ==
    LET r1 == parseKbnc(entry, parts)
        r2 == parseFactoringOpts(r1.entry, r1.parts)
        m1 == parseMandatorySomething(r2.parts)
        r3 == parsePartsFactors(r2.entry, m1.parts)
    IN  IF ~r1.ok THEN Skip(r1.reasons)
        ELSE IF ~isMersenne(r1.entry)
        THEN Skip(<<"Skip unsupported Pminus1 line (only Mersenne supported)">>)
        ELSE IF ~r2.ok THEN Skip(r2.reasons)
        ELSE IF ~m1.ok
        THEN Skip(<<"Bad Pminus1 line (missing how_far_factored)">>)
        ELSE IF ~r3.ok THEN Skip(<<>>)
        ELSE Accept(r3.entry, <<>>)

decodeLL(entry, parts) ==
    LET r1 == parseExponent(entry, parts)
        m1 == parseMandatorySomething(r1.parts)
        m2 == parseMandatorySomething(m1.parts)
    IN  IF ~r1.ok THEN Skip(r1.reasons)
        ELSE IF ~m1.ok THEN Skip(<<"Bad LL line (missing how_far_factored)">>)
        ELSE IF ~m2.ok THEN Skip(<<"Bad LL line (missing has_been_pminus1ed)">>)
        ELSE Accept(r1.entry, <<>>)

\* lines 241-269; line 252 writes parts.size >= 2: the size of parts
decodePRP(entry, parts) ==
    LET r1 == parseKbnc(entry, parts)
        odd == Len(r1.parts) \in {1, 3, 5}
        r2 == IF odd THEN parsePartsFactors(r1.entry, r1.parts)
              ELSE Step(TRUE, r1.entry, r1.parts, <<>>)
        cofactor == odd /\ isMersenne(r2.entry)
        e3 == IF cofactor THEN [r2.entry EXCEPT !.residueType = 5]
              ELSE r2.entry
        p4 == IF Len(r2.parts) >= 2 THEN eraseFront(r2.parts, 2) ELSE r2.parts
        hasBase == Len(p4) >= 2
        base == stoul(p4[1])
        rt == stoul(p4[2])
    IN  IF ~r1.ok THEN Skip(r1.reasons)
        ELSE IF ~r2.ok THEN Skip(<<"Bad PRP line (bad known factors part)">>)
        ELSE IF cofactor
                /\ ~validateFactors(r2.entry.exponent, r2.entry.knownFactors)
        THEN Skip(<<"Skip PRP line: invalid known factors for exponent">>)
        ELSE IF ~isMersenne(e3) /\ ~isWagstaff(e3)
        THEN Skip(<<"Skip unsupported PRP line (only Mersenne and Wagstaff supported)">>)
        ELSE IF hasBase /\ ~(base.ok /\ rt.ok) THEN Skip(<<>>)
        ELSE IF hasBase /\ ULess(base.val, 2)
        THEN Skip(<<"Skip PRP line: invalid base < 2">>)
        ELSE IF hasBase /\ base.val # 3
        THEN Skip(<<"Skip PRP line: only base 3 implemented">>)
        ELSE Accept(e3, <<>>)

\* lines 202-204: the tokens of the payload, a leading empty or N/A one dropped
payloadParts(payload) ==
    LET parts == splitRespectingQuotes(payload, ",")
    IN  IF parts # <<>> /\ (parts[1] = <<>> \/ parts[1] = sNA)
        THEN eraseFront(parts, 1) ELSE parts

\* line 207: whether the first token is taken as the assignment ID
hasAid(parts, isPF, isPM1) ==
    parts # <<>> /\ (isHex(parts[1]) \/ ((isPF \/ isPM1) /\ parts[1] = sAID))

\* lines 186-273: the set of outcomes of one line (one outcome, unless the
\* line runs into the unchecked parts[0])
decodeLine(line) ==
    LET top == split(line, "=")
        isPRP == top[1] = sPRP \/ top[1] = sPRPDC
        isLL == top[1] = sTest \/ top[1] = sDoubleCheck
        isPF == top[1] = sPFactor
        isPM1 == top[1] = sPminus1
        testType == IF isLL THEN TESTTYPE_LL
                    ELSE IF isPRP THEN TESTTYPE_PRP ELSE TESTTYPE_PM1
        parts0 == payloadParts(top[2])
        aided == hasAid(parts0, isPF, isPM1)
        parts == IF aided THEN eraseFront(parts0, 1) ELSE parts0
        entry == [DefaultEntry EXCEPT !.testType = testType,
                                      !.rawLine = line,
                                      !.aid = IF aided THEN parts0[1] ELSE <<>>]
    IN  IF line = <<>> \/ line[1] = "#" THEN {Skip(<<>>)}
        ELSE IF Len(top) < 2 THEN {Skip(<<>>)}
        ELSE IF ~(isLL \/ isPRP \/ isPF \/ isPM1)
        THEN {Skip(<<"Skip unsupported test type">>)}
        ELSE IF isPF THEN decodePFactor(entry, parts)
        ELSE IF isPM1 THEN {decodePminus1(entry, parts)}
        ELSE IF isLL THEN {decodeLL(entry, parts)}
        ELSE {decodePRP(entry, parts)}

----------------------------------------------------------------------------
(* Files. *)

Absent == [exists |-> FALSE, lines |-> <<>>]

File(lines) == [exists |-> TRUE, lines |-> lines]

\* the sequences of at most n elements of S
SeqsUpTo(S, n) == UNION {[1..m -> S] : m \in 0..n}

\* s without its i-th element
RemoveAt(s, i) == SubSeq(s, 1, i - 1) \o SubSeq(s, i + 1, Len(s))

----------------------------------------------------------------------------
(* WorktodoParser::parse, one line per step. *)

NoResult ==
    [kind |-> "none", entry |-> DefaultEntry, line |-> 0, reasons |-> <<>>]

Nullopt ==
    [kind |-> "nullopt", entry |-> DefaultEntry, line |-> 0, reasons |-> <<>>]

NoRemove ==
    [at |-> "none", in |-> <<>>, skipped |-> FALSE, ret |-> FALSE,
     opened |-> FALSE, removeOk |-> FALSE, renameOk |-> FALSE,
     queue0 |-> Absent, archive0 |-> Absent, removed |-> <<>>,
     job |-> NoResult]

\* lines 173-177: the file is opened; one that cannot be is "no entry"
ParseOpen ==
    /\ pc = "idle"
    /\ calls < MaxCalls
    /\ calls' = calls + 1
    /\ skipLog' = <<>>
    /\ scan' = 1
    /\ IF queue.exists
       THEN /\ pc' = "parse"
            /\ parseResult' = NoResult
       ELSE /\ pc' = "idle"
            /\ parseResult' = Nullopt
    /\ UNCHANGED <<queue, temp, archive, rm>>

\* lines 185-274: std::getline gives a line and the body of the loop runs
ParseLine ==
    /\ pc = "parse"
    /\ scan <= Len(queue.lines)
    /\ \E o \in decodeLine(queue.lines[scan]) :
        /\ pc' = CASE o.kind = "skip" -> "parse"
                   [] o.kind = "accept" -> "idle"
                   [] o.kind = "crash" -> "crashed"
        /\ scan' = IF o.kind = "skip" THEN scan + 1 ELSE scan
        /\ skipLog' = IF o.kind = "skip"
                      THEN Append(skipLog, [line |-> queue.lines[scan],
                                            reasons |-> o.reasons])
                      ELSE skipLog
        /\ parseResult' = IF o.kind = "accept"
                          THEN [kind |-> "entry", entry |-> o.entry,
                                line |-> scan, reasons |-> o.reasons]
                          ELSE parseResult
    /\ UNCHANGED <<queue, temp, archive, calls, rm>>

\* lines 276-277: std::getline fails at the end of the file
ParseEof ==
    /\ pc = "parse"
    /\ scan > Len(queue.lines)
    /\ pc' = "idle"
    /\ parseResult' = Nullopt
    /\ UNCHANGED <<queue, temp, archive, calls, scan, skipLog, rm>>

----------------------------------------------------------------------------
(* WorktodoParser::removeFirstProcessed, one file-system call per step.    *)
(* A file opened for writing may fail to open whatever the model holds     *)
(* (a read-only directory or file); the queue file fails to open for       *)
(* reading when it does not exist.  What a stream is given is taken to     *)
(* reach its file at once.                                                 *)

\* lineTarget without the test of the flag: every non-empty line is archived
lineTarget_EveryNonEmpty(skipped, line) ==
    IF line # <<>> THEN "save" ELSE "temp"

\* lines 293-298: where the line read goes, the archive or the temporary file
lineTarget(skipped, line) ==
    IF ~skipped /\ line # <<>> THEN "save" ELSE "temp"

\* lines 282-287
RemoveOpen ==
    /\ pc = "idle"
    /\ calls < MaxCalls
    /\ calls' = calls + 1
    /\ \E tempOk \in BOOLEAN, saveOk \in BOOLEAN :
        LET opened == queue.exists /\ tempOk /\ saveOk
        IN  /\ temp' = IF tempOk THEN File(<<>>) ELSE temp
            /\ archive' = IF saveOk THEN File(archive.lines) ELSE archive
            /\ pc' = IF opened THEN "remove" ELSE "idle"
            /\ rm' = [NoRemove EXCEPT
                        !.at = IF opened THEN "loop" ELSE "returned",
                        !.in = queue.lines,
                        !.opened = opened,
                        !.queue0 = queue,
                        !.archive0 = archive,
                        !.job = parseResult]
    /\ parseResult' = NoResult
    /\ UNCHANGED <<queue, scan, skipLog>>

\* lines 292-299, one iteration
RemoveLine ==
    /\ pc = "remove"
    /\ rm.at = "loop"
    /\ rm.in # <<>>
    /\ LET line == Head(rm.in)
           target == lineTarget(rm.skipped, line)
       IN  /\ archive' = IF target = "save"
                         THEN File(Append(archive.lines, line)) ELSE archive
           /\ temp' = IF target = "temp"
                      THEN File(Append(temp.lines, line)) ELSE temp
           /\ rm' = [rm EXCEPT
                       !.in = Tail(rm.in),
                       !.skipped = rm.skipped \/ target = "save",
                       !.removed = IF target = "save" THEN line ELSE rm.removed]
    /\ UNCHANGED <<queue, pc, calls, scan, skipLog, parseResult>>

\* lines 301-303
RemoveClose ==
    /\ pc = "remove"
    /\ rm.at = "loop"
    /\ rm.in = <<>>
    /\ rm' = [rm EXCEPT !.at = "closed"]
    /\ UNCHANGED <<queue, temp, archive, pc, calls, scan, skipLog, parseResult>>

\* line 305: std::remove(filename_), its result not looked at
RemoveUnlink ==
    /\ pc = "remove"
    /\ rm.at = "closed"
    /\ \E ok \in BOOLEAN :
        /\ queue' = IF ok THEN Absent ELSE queue
        /\ rm' = [rm EXCEPT !.at = "removed", !.removeOk = ok]
    /\ UNCHANGED <<temp, archive, pc, calls, scan, skipLog, parseResult>>

\* lines 306-308: std::rename(filename_ + ".tmp", filename_), its result not
\* looked at, and the return
RemoveRename ==
    /\ pc = "remove"
    /\ rm.at = "removed"
    /\ \E ok \in BOOLEAN :
        /\ queue' = IF ok THEN temp ELSE queue
        /\ temp' = IF ok THEN Absent ELSE temp
        /\ rm' = [rm EXCEPT !.at = "returned", !.renameOk = ok,
                            !.ret = rm.skipped]
    /\ pc' = "idle"
    /\ UNCHANGED <<archive, calls, scan, skipLog, parseResult>>

----------------------------------------------------------------------------
(* The specifications. *)

\* the archive before the first call: absent, or holding an earlier line
Archives == {Absent, File(<<LineTest>>)}

InitRest ==
    /\ temp = Absent
    /\ archive \in Archives
    /\ pc = "idle"
    /\ calls = 0
    /\ scan = 1
    /\ skipLog = <<>>
    /\ parseResult = NoResult
    /\ rm = NoRemove

Init ==
    /\ queue \in {Absent} \cup {File(ls) : ls \in SeqsUpTo(Lines, MaxLines)}
    /\ InitRest

Next ==
    \/ ParseOpen
    \/ ParseLine
    \/ ParseEof
    \/ RemoveOpen
    \/ RemoveLine
    \/ RemoveClose
    \/ RemoveUnlink
    \/ RemoveRename

Spec == Init /\ [][Next]_vars

\* removeFirstProcessed alone, called again and again on longer queue files
\* of fewer kinds of lines
QueueLines == {LineEmpty, LineComment, LineTest, LinePminus1}

InitArchive ==
    /\ queue \in {Absent}
                 \cup {File(ls) : ls \in SeqsUpTo(QueueLines, MaxQueueLines)}
    /\ InitRest

NextArchive ==
    \/ RemoveOpen
    \/ RemoveLine
    \/ RemoveClose
    \/ RemoveUnlink
    \/ RemoveRename

SpecArchive == InitArchive /\ [][NextArchive]_vars

----------------------------------------------------------------------------
(* What the claims speak of. *)

HasNonEmpty(lines) == \E i \in 1..Len(lines) : lines[i] # <<>>

FirstNonEmpty(lines) ==
    CHOOSE i \in 1..Len(lines) :
        lines[i] # <<>> /\ \A j \in 1..(i - 1) : lines[j] = <<>>

\* the queue file with its first non-empty line taken out
Rewritten(lines) ==
    IF HasNonEmpty(lines) THEN RemoveAt(lines, FirstNonEmpty(lines)) ELSE lines

\* a call of removeFirstProcessed returned and no file-system call of it failed
ReturnedNoIoFailure == rm.at = "returned" /\ rm.opened /\ rm.renameOk

accepts(line) == \E o \in decodeLine(line) : o.kind = "accept"

\* the keyword of a line, and its payload tokens after the assignment ID
keywordOf(line) ==
    IF Len(split(line, "=")) >= 2 THEN split(line, "=")[1] ELSE <<>>

fieldsOf(line) ==
    LET kw == keywordOf(line)
        parts0 == payloadParts(split(line, "=")[2])
    IN  IF kw = <<>> THEN <<>>
        ELSE IF hasAid(parts0, kw = sPFactor, kw = sPminus1)
             THEN eraseFront(parts0, 1) ELSE parts0

\* a decimal numeral, nothing else
isNumeral(s) == s # <<>> /\ digitsEnd(s, 1) = Len(s) + 1

numeral(s) == digitsValue(s, 1, Len(s) + 1)

\* PFactor=<exponent>,<how far factored>,<tests saved>
isPFactorShorthandNoBounds(line) ==
    /\ keywordOf(line) = sPFactor
    /\ Len(fieldsOf(line)) = 3
    /\ fieldsOf(line)[1] # sOne
    /\ isNumeral(fieldsOf(line)[1])
    /\ numeral(fieldsOf(line)[1]) >= 1

\* Pminus1=1,2,<n>,-1,<B1>,<B2>,<how far factored>
isPminus1NoFactorList(line) ==
    LET f == fieldsOf(line)
    IN  /\ keywordOf(line) = sPminus1
        /\ Len(f) = 7
        /\ f[1] = sOne /\ f[2] = <<"2">> /\ f[4] = <<"-", "1">>
        /\ isNumeral(f[3]) /\ numeral(f[3]) >= 1
        /\ isNumeral(f[5]) /\ numeral(f[5]) >= 1
        /\ isNumeral(f[6]) /\ numeral(f[6]) >= numeral(f[5])

\* PRP=<k>,<b>,<n>,<c> and 1, 3 or 5 more tokens, the last one no quoted list
isPrpBadFactorList(line) ==
    LET f == fieldsOf(line)
    IN  /\ keywordOf(line) \in {sPRP, sPRPDC}
        /\ Len(f) \in {5, 7, 9}
        /\ parseKbnc(DefaultEntry, f).ok
        /\ parseFactors(f[Len(f)]) = <<>>

\* the lines of the last scan that were skipped, with their reasons
Skipped == {skipLog[i] : i \in 1..Len(skipLog)}

----------------------------------------------------------------------------
(* The claims. *)

\* C1: when parse() returned a descriptor and removeFirstProcessed() is then
\* called on the same file (and no file-system call fails), the line taken
\* out of the queue and appended to the archive is the descriptor's rawLine,
\* also when comment lines or rejected lines come before it.
C1_RemovedLineIsRawLine ==
    (ReturnedNoIoFailure /\ rm.job.kind = "entry")
        => (rm.ret /\ rm.removed = rm.job.entry.rawLine)

\* C2: parse() scans the lines in order and returns the descriptor of the
\* first line the decoder accepts: every line before it is rejected, a
\* rejected line never stops the scan, and "no entry" is returned only when
\* no line is accepted.
C2_FirstAcceptedLine ==
    /\ pc # "crashed"
    /\ pc = "parse" =>
          \A j \in 1..(scan - 1) : ~accepts(queue.lines[j])
    /\ parseResult.kind = "entry" =>
          /\ parseResult.line \in 1..Len(queue.lines)
          /\ parseResult.entry.rawLine = queue.lines[parseResult.line]
          /\ Accept(parseResult.entry, parseResult.reasons)
                \in decodeLine(queue.lines[parseResult.line])
          /\ \A j \in 1..(parseResult.line - 1) : ~accepts(queue.lines[j])
    /\ parseResult.kind = "nullopt" =>
          \A j \in 1..Len(queue.lines) : ~accepts(queue.lines[j])

\* C2 but for the stopped process: what holds of the code
C2_FirstAcceptedUnlessStopped ==
    pc # "crashed" =>
        /\ pc = "parse" =>
              \A j \in 1..(scan - 1) : ~accepts(queue.lines[j])
        /\ parseResult.kind = "entry" =>
              /\ parseResult.line \in 1..Len(queue.lines)
              /\ parseResult.entry.rawLine = queue.lines[parseResult.line]
              /\ \A j \in 1..(parseResult.line - 1) : ~accepts(queue.lines[j])
        /\ parseResult.kind = "nullopt" =>
              \A j \in 1..Len(queue.lines) : ~accepts(queue.lines[j])

\* C3: when the queue file holds a non-empty line (and no file-system call
\* fails), removeFirstProcessed() returns true, the archive is its earlier
\* content followed by the first non-empty line, and the queue is the
\* original sequence of lines without that one line, blank lines before it
\* kept.
C3_FirstNonEmptyArchived ==
    (ReturnedNoIoFailure /\ HasNonEmpty(rm.queue0.lines)) =>
        LET i == FirstNonEmpty(rm.queue0.lines)
        IN  /\ rm.ret = TRUE
            /\ rm.removed = rm.queue0.lines[i]
            /\ archive = File(rm.archive0.lines \o <<rm.queue0.lines[i]>>)
            /\ queue = File(RemoveAt(rm.queue0.lines, i))

\* C3's case: a blank line, then the line archived, then a line kept, and an
\* archive that held a line before
C3_Witness ==
    /\ ReturnedNoIoFailure
    /\ Len(rm.queue0.lines) = 3
    /\ rm.queue0.lines[1] = <<>>
    /\ rm.queue0.lines[2] # <<>>
    /\ rm.queue0.lines[3] # <<>>
    /\ rm.archive0.lines # <<>>
    /\ rm.ret = TRUE

\* C4: on a queue file with no non-empty line removeFirstProcessed() returns
\* false and changes neither file; an archive that did not exist still does
\* not exist.
C4_NoOpWithoutNonEmptyLine ==
    (ReturnedNoIoFailure /\ ~HasNonEmpty(rm.queue0.lines)) =>
        /\ rm.ret = FALSE
        /\ queue = rm.queue0
        /\ archive = rm.archive0

\* C5: at every step of removeFirstProcessed() the queue path holds the whole
\* original content or the whole rewritten content: it is never missing and
\* never partly written.
C5_QueueNeverMissing ==
    pc = "remove" =>
        /\ queue.exists
        /\ queue.lines \in {rm.queue0.lines, Rewritten(rm.queue0.lines)}

\* C6: removeFirstProcessed() returns false whenever a file cannot be opened
\* or the rename of the temporary file onto the queue file fails.
C6_IoFailureReturnsFalse ==
    (rm.at = "returned" /\ (~rm.opened \/ ~rm.renameOk)) => rm.ret = FALSE

\* C7: every descriptor parse() returns has n >= 1, k >= 1 and b >= 2.
C7_DescriptorInvariant ==
    parseResult.kind = "entry" =>
        /\ ~ULess(parseResult.entry.exponent, 1)
        /\ ~ULess(parseResult.entry.k, 1)
        /\ ~ULess(parseResult.entry.b, 2)

\* C8: a PFactor line of exponent, how-far-factored and tests-saved tokens and
\* no B1,B2 is skipped with the "not enough parts for B1,B2" reason and no
\* other, and is never accepted.
C8_PFactorShorthandReason ==
    /\ \A s \in Skipped :
          isPFactorShorthandNoBounds(s.line) =>
              s.reasons = <<"Skip: not enough parts for B1,B2">>
    /\ parseResult.kind = "entry" =>
          ~isPFactorShorthandNoBounds(parseResult.entry.rawLine)

\* C9: a Pminus1 line of a Mersenne k,b,n,c, B1 >= 1, B2 >= B1, one
\* how-far-factored token and no factor list is accepted, with kind PM1, those
\* values and no known factor.
C9_Pminus1WithoutFactorList ==
    /\ \A s \in Skipped : ~isPminus1NoFactorList(s.line)
    /\ (parseResult.kind = "entry"
            /\ isPminus1NoFactorList(parseResult.entry.rawLine)) =>
          LET f == fieldsOf(parseResult.entry.rawLine)
              e == parseResult.entry
          IN  /\ e.testType = TESTTYPE_PM1
              /\ e.k = 1 /\ e.b = 2 /\ e.c = 0 - 1
              /\ e.exponent = numeral(f[3])
              /\ e.B1 = numeral(f[5]) /\ e.B2 = numeral(f[6])
              /\ e.knownFactors = <<>>

\* C10: a PRP or PRPDC line with 1, 3 or 5 tokens after k,b,n,c whose last
\* token is no double-quoted comma list is skipped with the "bad known
\* factors" reason; it is never accepted.
C10_PrpBadFactorListReason ==
    /\ \A s \in Skipped :
          isPrpBadFactorList(s.line) =>
              s.reasons = <<"Bad PRP line (bad known factors part)">>
    /\ parseResult.kind = "entry" =>
          ~isPrpBadFactorList(parseResult.entry.rawLine)

====
